---- MODULE Spec2Model ----
(***************************************************************************)
(* A model of cluster_analysis.py: the survey pipeline                      *)
(*   read_csv -> coercion -> encoding -> scaling -> elbow sweep ->          *)
(*   k-means fit -> silhouette score -> per-cluster profile.                *)
(*                                                                         *)
(* Numbers are fixed point.  A numeric cell holds tenths (Tenths), a       *)
(* standardized feature holds ZScale-ths.  NaN is a value of its own.      *)
(* A raw numeric cell is the text of the CSV cell, a tuple of characters.   *)
(***************************************************************************)
EXTENDS Integers, Sequences, FiniteSets, TLC

(* ------------------------------ bounds --------------------------------- *)
\* longest table of well-formed rows
MaxRows == 3
\* longest table drawn freely from RowPool, defective rows included
MaxMixedRows == 2
\* rows drawn from ExtraPool in front of the ten-row Cohort
MaxExtra == 1
\* longest table drawn when a column is absent from the header
MaxRowsPartialSchema == 1
\* largest cluster count a direct caller passes to run_kmeans
MaxK == 4

(* ------------------------- numeric representation ---------------------- *)
Tenths == 10
ZScale == 10

\* Python's None, and a value that is not None
None == [none |-> TRUE, val |-> <<>>]
Some(x) == [none |-> FALSE, val |-> x]
IsNone(x) == x.none

NaN == [nan |-> TRUE, v |-> 0]
Num(n) == [nan |-> FALSE, v |-> n]
IsNaN(x) == x.nan

\* a sequence given as a function on 1..n, held as a tuple; a function,
\* held as its graph: the same values, computed once
Tuple(f) == f \o <<>>
Graph(f) == f @@ <<>>

Sign(n) == IF n < 0 THEN -1 ELSE IF n > 0 THEN 1 ELSE 0

RECURSIVE IsqrtBetween(_, _, _)
IsqrtBetween(n, lo, hi) ==
    IF lo >= hi THEN lo
    ELSE LET mid == (lo + hi + 1) \div 2
         IN  IF mid * mid <= n THEN IsqrtBetween(n, mid, hi)
             ELSE IsqrtBetween(n, lo, mid - 1)
\* floor of the square root
Isqrt(n) == IF n <= 0 THEN 0 ELSE IsqrtBetween(n, 0, n)

RECURSIVE SumTo(_, _)
\* f[1] + ... + f[n]
SumTo(f, n) == IF n = 0 THEN 0 ELSE f[n] + SumTo(f, n - 1)

RECURSIVE SelectIdx(_, _, _)
\* the positions i of 1..n with keep[i], in increasing order
SelectIdx(keep, i, n) ==
    IF i > n THEN <<>>
    ELSE (IF keep[i] THEN <<i>> ELSE <<>>) \o SelectIdx(keep, i + 1, n)

(* ------------------------------ columns -------------------------------- *)
IdColumn == "StudentID"
numeric_cols_to_convert == <<"StudyHoursPerDay", "TechSkill", "Motivation", "Age">>
categorical_features == <<"Device", "Location", "OnlineClassPreference", "DataAccess">>
OrdinalColumn == "Internet"
CsvColumns ==
    <<"StudentID", "StudyHoursPerDay", "TechSkill", "Motivation", "Age",
      "Internet", "Device", "Location", "OnlineClassPreference", "DataAccess">>

Range(s) == {s[i] : i \in 1..Len(s)}

\* the order Python gives the category strings of the model (code point order)
Alphabetical ==
    <<"Average", "Fast", "Laptop", "Limited", "Maybe", "Medium", "No", "Phone",
      "Rural", "Slow", "Tablet", "Unlimited", "Urban", "Yes">>
StrRank(s) == CHOOSE i \in 1..Len(Alphabetical) : Alphabetical[i] = s

RECURSIVE SortedStrings(_)
\* sorted(set) for a set of category strings
SortedStrings(S) ==
    IF S = {} THEN <<>>
    ELSE LET m == CHOOSE x \in S : \A y \in S : StrRank(x) <= StrRank(y)
         IN  <<m>> \o SortedStrings(S \ {m})

(* --------------------------- pandas: parsing --------------------------- *)
DigitChars == {"0", "1", "2", "3", "4", "5", "6", "7", "8", "9"}
DigitVal(c) ==
    CASE c = "0" -> 0 [] c = "1" -> 1 [] c = "2" -> 2 [] c = "3" -> 3
      [] c = "4" -> 4 [] c = "5" -> 5 [] c = "6" -> 6 [] c = "7" -> 7
      [] c = "8" -> 8 [] c = "9" -> 9

IsDigits(t) == Len(t) > 0 /\ \A i \in 1..Len(t) : t[i] \in DigitChars

RECURSIVE DigitsValue(_)
DigitsValue(t) ==
    IF t = <<>> THEN 0
    ELSE 10 * DigitsValue(SubSeq(t, 1, Len(t) - 1)) + DigitVal(t[Len(t)])

\* pd.to_numeric(errors='coerce') on one cell: digits, or digits "." digit;
\* anything else, the empty cell included, becomes NaN
to_numeric(t) ==
    IF IsDigits(t) THEN Num(Tenths * DigitsValue(t))
    ELSE IF /\ Len(t) >= 3
            /\ t[Len(t) - 1] = "."
            /\ IsDigits(SubSeq(t, 1, Len(t) - 2))
            /\ t[Len(t)] \in DigitChars
         THEN Num(Tenths * DigitsValue(SubSeq(t, 1, Len(t) - 2)) + DigitVal(t[Len(t)]))
         ELSE NaN

(* ---------------------------- pandas: frames --------------------------- *)
\* A frame: its column names in order, the index label of every row (the
\* position the row had in the file) and the rows, each a record by column.
Frame(cols, idx, rows) == [columns |-> cols, index |-> idx, rows |-> rows]
NRows(f) == Len(f.rows)

\* df[col] = fn(df[col])
AssignColumn(f, col, fn(_)) ==
    Frame(f.columns, f.index,
          Tuple([i \in 1..NRows(f) |-> [f.rows[i] EXCEPT ![col] = fn(f.rows[i][col])]]))

\* a faulty variant of dropna, dropping a row only when all of cols are
\* missing (how='all')
dropna_all(f, cols) ==
    LET keep == Tuple([i \in 1..NRows(f) |->
                          \E c \in Range(cols) : ~IsNaN(f.rows[i][c])])
        sel == SelectIdx(keep, 1, NRows(f))
    IN  Frame(f.columns, Tuple([j \in 1..Len(sel) |-> f.index[sel[j]]]),
              Tuple([j \in 1..Len(sel) |-> f.rows[sel[j]]]))

\* df.dropna(subset=cols): rows and their index labels, order kept
dropna(f, cols) ==
    LET keep == Tuple([i \in 1..NRows(f) |->
                          \A c \in Range(cols) : ~IsNaN(f.rows[i][c])])
        sel == SelectIdx(keep, 1, NRows(f))
    IN  Frame(f.columns, Tuple([j \in 1..Len(sel) |-> f.index[sel[j]]]),
              Tuple([j \in 1..Len(sel) |-> f.rows[sel[j]]]))

\* .astype(int) on a float: the fraction is cut off
astype_int(x) == Num((x.v \div Tenths) * Tenths)

HasColumns(f, cols) == \A c \in Range(cols) : c \in Range(f.columns)

\* the loop of lines 39-41
RECURSIVE ConvertColumns(_, _)
ConvertColumns(f, cols) ==
    IF cols = <<>> THEN f
    ELSE ConvertColumns(AssignColumn(f, Head(cols), to_numeric), Tail(cols))

\* df.copy()
OriginalCopy(f) == Frame(f.columns, f.index, f.rows)

Whole(n) == Num(n * Tenths)

\* a faulty variant of the lookup: a value outside it filled with 0
internet_map_filled(s) ==
    CASE s = "Slow" -> Whole(1)
      [] s = "Average" -> Whole(2)
      [] s = "Fast" -> Whole(3)
      [] OTHER -> Whole(0)

\* df['Internet'].map(internet_map): a value outside the lookup maps to NaN
internet_map(s) ==
    CASE s = "Slow" -> Whole(1)
      [] s = "Average" -> Whole(2)
      [] s = "Fast" -> Whole(3)
      [] OTHER -> NaN

\* the name get_dummies gives the indicator column of value v of column c
DummyName(c, v) == c \o "_" \o v

\* the distinct values of column c, sorted
Categories(f, c) == SortedStrings({f.rows[i][c] : i \in 1..NRows(f)})

RECURSIVE DummyColumnsDropFirst(_, _)
\* a faulty variant of the indicator columns: drop_first=True leaves out the
\* first category of every column
DummyColumnsDropFirst(f, cols) ==
    IF cols = <<>> THEN <<>>
    ELSE LET c == Head(cols)
             all == Categories(f, c)
             cats == IF all = <<>> THEN <<>> ELSE Tail(all)
         IN  Tuple([j \in 1..Len(cats) |->
                       [name |-> DummyName(c, cats[j]), col |-> c, val |-> cats[j]]])
             \o DummyColumnsDropFirst(f, Tail(cols))

RECURSIVE DummyColumns(_, _)
\* the indicator columns of the columns cols, in the order of cols
DummyColumns(f, cols) ==
    IF cols = <<>> THEN <<>>
    ELSE LET c == Head(cols)
             cats == Categories(f, c)
         IN  Tuple([j \in 1..Len(cats) |->
                       [name |-> DummyName(c, cats[j]), col |-> c, val |-> cats[j]]])
             \o DummyColumns(f, Tail(cols))

\* the columns of f that are not in cols, in order
OtherColumns(f, cols) ==
    LET keep == Tuple([i \in 1..Len(f.columns) |-> f.columns[i] \notin Range(cols)])
        sel == SelectIdx(keep, 1, Len(f.columns))
    IN  Tuple([j \in 1..Len(sel) |-> f.columns[sel[j]]])

\* pd.get_dummies(df, columns=cols, drop_first=False)
get_dummies(f, cols) ==
    LET rest == OtherColumns(f, cols)
        dums == DummyColumns(f, cols)
        names == rest \o Tuple([j \in 1..Len(dums) |-> dums[j].name])
        Cell(i, n) ==
            IF n \in Range(rest) THEN f.rows[i][n]
            ELSE LET d == CHOOSE j \in 1..Len(dums) : dums[j].name = n
                 IN  IF f.rows[i][dums[d].col] = dums[d].val THEN Whole(1) ELSE Whole(0)
    IN  Frame(names, f.index,
              Tuple([i \in 1..NRows(f) |-> Graph([n \in Range(names) |-> Cell(i, n)])]))

\* df.drop(col, axis=1)
drop_column(f, col) ==
    LET names == OtherColumns(f, <<col>>)
    IN  Frame(names, f.index,
              Tuple([i \in 1..NRows(f) |-> Graph([n \in Range(names) |-> f.rows[i][n]])]))

\* StandardScaler on one column: NaN is left out of the mean and the variance
\* and stays NaN; a column of variance zero is divided by 1
ScaleColumn(xs) ==
    LET seen == SelectIdx(Tuple([i \in 1..Len(xs) |-> ~IsNaN(xs[i])]), 1, Len(xs))
        m == Len(seen)
        S == SumTo(Tuple([j \in 1..m |-> xs[seen[j]].v]), m)
        SS == SumTo(Tuple([j \in 1..m |-> xs[seen[j]].v * xs[seen[j]].v]), m)
        V == m * SS - S * S
        Z(x) == LET D == m * x - S
                IN  IF V = 0 THEN 0
                    ELSE Sign(D) * Isqrt((D * D * ZScale * ZScale) \div V)
    IN  Tuple([i \in 1..Len(xs) |-> IF IsNaN(xs[i]) THEN NaN ELSE Num(Z(xs[i].v))])

\* StandardScaler().fit_transform(df_to_scale): a matrix, one row per row of
\* the frame and one column per column of the frame, in their order
fit_transform(f) ==
    LET cols == f.columns
        scaled == Tuple([j \in 1..Len(cols) |->
                            ScaleColumn(Tuple([i \in 1..NRows(f) |-> f.rows[i][cols[j]]]))])
    IN  Tuple([i \in 1..NRows(f) |-> Tuple([j \in 1..Len(cols) |-> scaled[j][i]])])

(* ------------------- scikit-learn: KMeans and silhouette ----------------- *)
\* The generator behind numpy's RandomState, stood in for by a linear
\* congruential generator: what matters is that a stream is a function of its
\* seed and that every draw moves the state on.
RngModulus == 65537
RngMultiplier == 75
RngIncrement == 74
RngNext(s) == (RngMultiplier * s + RngIncrement) % RngModulus

IntSeed(n) == [none |-> FALSE, v |-> n]
\* random_state=None, the faulty variant of a seeded estimator
NoSeed == [none |-> TRUE, v |-> 0]
\* check_random_state: an int seeds a generator of its own, None is the
\* process-wide generator
check_random_state(seed, global) == IF seed.none THEN global ELSE seed.v % RngModulus

\* KMeans' default iteration cap
max_iter == 300

HasNaN(X) == \E i \in 1..Len(X) : \E j \in 1..Len(X[i]) : IsNaN(X[i][j])
\* the float array of a matrix without NaN
Values(X) == Tuple([i \in 1..Len(X) |-> Tuple([j \in 1..Len(X[i]) |-> X[i][j].v])])

RECURSIVE SqDist(_, _, _)
SqDist(a, b, j) ==
    IF j = 0 THEN 0 ELSE (a[j] - b[j]) * (a[j] - b[j]) + SqDist(a, b, j - 1)
\* squared Euclidean distance
Dist2(a, b) == SqDist(a, b, Len(a))

\* np.argmin over the centers: the first of the nearest
Nearest(x, centers) ==
    LET d == Tuple([c \in 1..Len(centers) |-> Dist2(x, centers[c])])
    IN  CHOOSE c \in 1..Len(centers) :
            \A e \in 1..Len(centers) : d[c] < d[e] \/ (d[c] = d[e] /\ c <= e)

RECURSIVE FirstReaching(_, _, _, _)
\* searchsorted on the cumulative weights: the first i whose running sum
\* exceeds r
FirstReaching(w, r, i, acc) ==
    IF i >= Len(w) \/ acc + w[i] > r THEN i
    ELSE FirstReaching(w, r, i + 1, acc + w[i])

RECURSIVE PlusPlus(_, _, _, _)
\* init='k-means++': the first center uniformly, each further one with
\* probability proportional to its squared distance to the nearest center
PlusPlus(X, k, centers, s) ==
    IF Len(centers) = k THEN [centers |-> centers, rng |-> s]
    ELSE LET s1 == RngNext(s)
             n == Len(X)
             w == Tuple([i \in 1..n |-> Dist2(X[i], centers[Nearest(X[i], centers)])])
             pot == SumTo(w, n)
             pick == IF centers = <<>> THEN (s1 % n) + 1
                     ELSE IF pot = 0 THEN 1
                     ELSE FirstReaching(w, s1 % pot, 1, 0)
         IN  PlusPlus(X, k, Append(centers, X[pick]), s1)

Members(lab, c) == SelectIdx(Tuple([i \in 1..Len(lab) |-> lab[i] = c]), 1, Len(lab))

RECURSIVE Farthest(_, _, _)
\* the m positions farthest from their centers, farthest first
Farthest(dist, m, taken) ==
    IF m = 0 \/ taken = DOMAIN dist THEN <<>>
    ELSE LET left == DOMAIN dist \ taken
             i == CHOOSE a \in left :
                     \A b \in left : dist[a] > dist[b] \/ (dist[a] = dist[b] /\ a <= b)
         IN  <<i>> \o Farthest(dist, m - 1, taken \cup {i})

\* the M-step: every center becomes the mean of its members; an empty
\* cluster is moved onto one of the points farthest from their centers
Update(X, lab, centers) ==
    LET k == Len(centers)
        n == Len(X)
        empty == SelectIdx(Tuple([c \in 1..k |-> Members(lab, c) = <<>>]), 1, k)
        far == Farthest(Tuple([i \in 1..n |-> Dist2(X[i], centers[lab[i]])]),
                        Len(empty), {})
        moved == Tuple([i \in 1..n |->
                           IF \E j \in 1..Len(far) : far[j] = i
                           THEN empty[CHOOSE j \in 1..Len(far) : far[j] = i]
                           ELSE lab[i]])
        Mean(c) ==
            LET mem == Members(moved, c)
            IN  IF mem = <<>> THEN centers[c]
                ELSE Tuple([j \in 1..Len(X[1]) |->
                         SumTo(Tuple([t \in 1..Len(mem) |-> X[mem[t]][j]]), Len(mem))
                             \div Len(mem)])
    IN  Tuple([c \in 1..k |-> Mean(c)])

Assign(X, centers) == Tuple([i \in 1..Len(X) |-> Nearest(X[i], centers)])

RECURSIVE Lloyd(_, _, _, _)
\* one run: E-step and M-step until the labels repeat or the cap is hit
Lloyd(X, centers, prev, it) ==
    LET lab == Assign(X, centers)
    IN  IF lab = prev \/ it >= max_iter
        THEN [labels |-> Tuple([i \in 1..Len(X) |-> lab[i] - 1]),
              inertia |-> SumTo(Tuple([i \in 1..Len(X) |-> Dist2(X[i], centers[lab[i]])]),
                                Len(X))]
        ELSE Lloyd(X, Update(X, lab, centers), lab, it + 1)

RECURSIVE Restarts(_, _, _, _)
\* the n_init runs, each seeded from the same stream in turn
Restarts(X, k, s, left) ==
    IF left = 0 THEN <<>>
    ELSE LET init == PlusPlus(X, k, <<>>, s)
         IN  <<Lloyd(X, init.centers, <<>>, 0)>> \o Restarts(X, k, init.rng, left - 1)

RECURSIVE StreamAfter(_, _)
\* the state of a generator after that many draws
StreamAfter(s, draws) == IF draws = 0 THEN s ELSE StreamAfter(RngNext(s), draws - 1)

\* _is_same_clustering: equal up to a renaming of the labels
SameClustering(l1, l2) ==
    \A i, j \in 1..Len(l1) : (l1[i] = l1[j]) <=> (l2[i] = l2[j])

\* does run r replace the best run so far
Improves(r, best) == r.inertia < best.inertia /\ ~SameClustering(r.labels, best.labels)

RECURSIVE BestFrom(_, _, _)
\* the index of the run kept: a later run replaces the best only when it
\* improves on it
BestFrom(runs, i, best) ==
    IF i > Len(runs) THEN best
    ELSE BestFrom(runs, i + 1, IF Improves(runs[i], runs[best]) THEN i ELSE best)
BestRun(runs) == BestFrom(runs, 2, 1)

\* does KMeans(n_clusters=k).fit(X) raise
FitRejects(X, k) ==
    \/ IsNone(X)
    \/ k < 1
    \/ HasNaN(X.val)
    \/ Len(X.val) < k

\* what the model keeps of a fit: who asked for it, on what, and the estimator
FitRecord(who, X, fit) ==
    [by |-> who, X |-> X, n_clusters |-> fit.n_clusters,
     random_state |-> fit.random_state, n_init |-> fit.n_init,
     labels_ |-> fit.labels_, inertia_ |-> fit.inertia_]

\* KMeans(n_clusters=k, init='k-means++', random_state, n_init).fit(X) on a
\* matrix it accepts: the runs, the one kept, and the process-wide generator
\* afterwards
KMeansFit(X, k, random_state, n_init, global) ==
    LET runs == Restarts(Values(X), k, check_random_state(random_state, global), n_init)
        best == BestRun(runs)
    IN  [n_clusters |-> k, random_state |-> random_state, n_init |-> n_init,
         runs |-> runs, best |-> best,
         labels_ |-> runs[best].labels, inertia_ |-> runs[best].inertia,
         global |-> IF random_state.none THEN StreamAfter(global, k * n_init) ELSE global]

(* silhouette_score, in ScoreScale-ths *)
ScoreScale == 1000
\* Euclidean distance between two rows, in ZScale-ths
Dist(a, b) == Isqrt(Dist2(a, b))

\* the mean distance, times ScoreScale, from row i to the rows at positions mem
\* other than i
MeanDistTo(X, i, mem) ==
    LET others == SelectIdx(Tuple([t \in 1..Len(mem) |-> mem[t] # i]), 1, Len(mem))
    IN  (ScoreScale
           * SumTo(Tuple([t \in 1..Len(others) |-> Dist(X[i], X[mem[others[t]]])]),
                   Len(others))) \div Len(others)

SetMin(S) == CHOOSE x \in S : \A y \in S : x <= y
SetMax(S) == CHOOSE x \in S : \A y \in S : x >= y

\* silhouette_samples: 0 for the only member of a cluster
SilhouetteOf(X, lab, i) ==
    LET own == Members(lab, lab[i])
        a == MeanDistTo(X, i, own)
        b == SetMin({MeanDistTo(X, i, Members(lab, c)) : c \in Range(lab) \ {lab[i]}})
        top == IF a > b THEN a ELSE b
    IN  IF Len(own) = 1 \/ top = 0 THEN 0 ELSE (ScoreScale * (b - a)) \div top

\* check_number_of_labels: silhouette_score raises unless
\* 2 <= number of labels <= number of rows - 1
ScoreRejects(X, lab) ==
    ~(1 < Cardinality(Range(lab)) /\ Cardinality(Range(lab)) < Len(X))

silhouette_score(X, lab) ==
    LET V == Values(X)
    IN  SumTo(Tuple([i \in 1..Len(X) |-> SilhouetteOf(V, lab, i)]), Len(X)) \div Len(X)

\* the two messages of lines 126-129
GoalMessage(s) == IF 2 * s > ScoreScale THEN "score > 0.5" ELSE "score < 0.5"

(* analyze_clusters *)
numeric_cols == <<"StudyHoursPerDay", "TechSkill", "Motivation", "Age">>
categorical_cols ==
    <<"Device", "Internet", "Location", "OnlineClassPreference", "DataAccess">>

MeanScale == 100
\* the mean of a list of numbers, in MeanScale-ths of a tenth
MeanOf(xs) ==
    (MeanScale * SumTo(Tuple([i \in 1..Len(xs) |-> xs[i].v]), Len(xs))) \div Len(xs)

Count(xs, v) == Cardinality({i \in 1..Len(xs) : xs[i] = v})
\* Series.mode(): the most frequent values, sorted
mode(xs) ==
    LET most == SetMax({Count(xs, v) : v \in Range(xs)})
    IN  SortedStrings({v \in Range(xs) : Count(xs, v) = most})
\* a faulty variant of line 151: x.mode().iloc[-1]
LastMode(xs) == mode(xs)[Len(mode(xs))]
\* x.mode().iloc[0]
FirstMode(xs) == mode(xs)[1]

\* a faulty variant of the assignment of line 139: the labels attached as a
\* Series, which pandas aligns on the index labels and not on the position
\* (-1 for a row without a label)
WithClusterByIndex(f, lab) ==
    Frame(Append(f.columns, "Cluster"), f.index,
          Tuple([i \in 1..NRows(f) |->
                    Graph([c \in Range(f.columns) \cup {"Cluster"} |->
                              IF c # "Cluster" THEN f.rows[i][c]
                              ELSE IF f.index[i] < Len(lab) THEN lab[f.index[i] + 1]
                              ELSE -1])]))

\* df_analysis: the copy of original_data with the column Cluster
WithCluster(f, lab) ==
    Frame(Append(f.columns, "Cluster"), f.index,
          Tuple([i \in 1..NRows(f) |->
                    Graph([c \in Range(f.columns) \cup {"Cluster"} |->
                              IF c = "Cluster" THEN lab[i] ELSE f.rows[i][c]])]))

RECURSIVE SortedInts(_)
SortedInts(S) ==
    IF S = {} THEN <<>> ELSE <<SetMin(S)>> \o SortedInts(S \ {SetMin(S)})

\* lines 148-154: one row per cluster label, labels ascending; the mean of
\* every numeric column and the first mode of every categorical column
Profile(dfa) ==
    LET n == NRows(dfa)
        groups == SortedInts({dfa.rows[i].Cluster : i \in 1..n})
        RowsOf(g) == SelectIdx(Tuple([i \in 1..n |-> dfa.rows[i].Cluster = g]), 1, n)
        Col(g, c) == LET at == RowsOf(g)
                     IN  Tuple([t \in 1..Len(at) |-> dfa.rows[at[t]][c]])
    IN  Tuple([j \in 1..Len(groups) |->
            [Cluster |-> groups[j],
             means |-> Graph([c \in Range(numeric_cols) |-> MeanOf(Col(groups[j], c))]),
             modes |-> Graph([c \in Range(categorical_cols) |->
                                 FirstMode(Col(groups[j], c))])]])

(* find_optimal_k and main *)
KRangeFirst == 1
KRangeLast == 10
SelectorRandomState == IntSeed(42)
SelectorNInit == 10
FitterRandomState == IntSeed(42)
FitterNInit == 10
MainK == 4
\* a faulty variant of main: the count taken from the sweep, where the
\* inertia falls most
ElbowCount(sweep) ==
    CHOOSE kk \in 2..Len(sweep) :
        \A j \in 2..Len(sweep) : sweep[kk - 1] - sweep[kk] >= sweep[j - 1] - sweep[j]
\* the cluster count main passes to run_kmeans (line 175)
FitterCount(sweep) == MainK

\* what the caller of load_and_prepare_data does with a matrix (lines 170-175)
AfterLoad(who) == IF who = "main" THEN "sweep" ELSE "call_run_kmeans"
\* a faulty variant of main, without the test of line 170
ProceedToSweep(who) == "sweep"
\* what it does with None (lines 170-171)
AfterNone(who) == "done"

(* ------------------------------- inputs -------------------------------- *)
RawRow(id, sh, ts, mo, age, inet, dev, loc, ocp, da) ==
    [StudentID |-> id, StudyHoursPerDay |-> sh, TechSkill |-> ts, Motivation |-> mo,
     Age |-> age, Internet |-> inet, Device |-> dev, Location |-> loc,
     OnlineClassPreference |-> ocp, DataAccess |-> da]

CleanRows ==
    { RawRow(<<"1">>, <<"2">>, <<"3">>, <<"4">>, <<"2", "0">>,
             "Fast", "Phone", "Urban", "Yes", "Unlimited"),
      RawRow(<<"3">>, <<"6">>, <<"1">>, <<"2">>, <<"2", "5">>,
             "Slow", "Phone", "Rural", "No", "Limited"),
      RawRow(<<"4">>, <<"5", ".", "5">>, <<"1">>, <<"1">>, <<"2", "4">>,
             "Average", "Laptop", "Rural", "No", "Limited") }

DefectiveRows ==
    { RawRow(<<"M", "A", "I", "N">>, <<"2">>, <<"3">>, <<"4">>, <<"2", "0">>,
             "Fast", "Tablet", "Urban", "Yes", "Unlimited"),
      RawRow(<<"5">>, <<"x">>, <<"3">>, <<"4">>, <<"2", "0">>,
             "Fast", "Phone", "Urban", "Maybe", "Unlimited"),
      RawRow(<<"6">>, <<"2">>, <<>>, <<"4">>, <<"2", "0">>,
             "Slow", "Phone", "Urban", "Yes", "Unlimited"),
      RawRow(<<"7">>, <<"2">>, <<"3">>, <<"n", "/", "a">>, <<"2", "0">>,
             "Fast", "Laptop", "Rural", "Yes", "Limited"),
      RawRow(<<"8">>, <<"2">>, <<"3">>, <<"4">>, <<"a", "b", "c">>,
             "Average", "Phone", "Urban", "No", "Unlimited") }

\* a well-formed row but for an Internet value outside the lookup
UnmappedRows ==
    { RawRow(<<"9", ".", "5">>, <<"3">>, <<"2">>, <<"3">>, <<"2", "2">>,
             "Medium", "Tablet", "Urban", "Yes", "Limited") }

RowPool == CleanRows \cup DefectiveRows \cup UnmappedRows

\* ten well-formed respondents, enough for the sweep of find_optimal_k
Cohort ==
    << RawRow(<<"1", "1">>, <<"2">>, <<"3">>, <<"4">>, <<"2", "0">>,
              "Fast", "Phone", "Urban", "Yes", "Unlimited"),
       RawRow(<<"1", "2">>, <<"1">>, <<"3">>, <<"5">>, <<"2", "1">>,
              "Fast", "Laptop", "Urban", "Yes", "Unlimited"),
       RawRow(<<"1", "3">>, <<"2">>, <<"4">>, <<"4">>, <<"1", "9">>,
              "Average", "Laptop", "Urban", "No", "Unlimited"),
       RawRow(<<"1", "4">>, <<"6">>, <<"1">>, <<"2">>, <<"2", "5">>,
              "Slow", "Phone", "Rural", "No", "Limited"),
       RawRow(<<"1", "5">>, <<"7">>, <<"1">>, <<"1">>, <<"2", "6">>,
              "Slow", "Laptop", "Rural", "No", "Limited"),
       RawRow(<<"1", "6">>, <<"6">>, <<"2">>, <<"2">>, <<"2", "4">>,
              "Average", "Phone", "Rural", "Yes", "Limited"),
       RawRow(<<"1", "7">>, <<"4">>, <<"5">>, <<"5">>, <<"3", "0">>,
              "Fast", "Tablet", "Urban", "Maybe", "Limited"),
       RawRow(<<"1", "8">>, <<"4">>, <<"5">>, <<"4">>, <<"3", "1">>,
              "Fast", "Tablet", "Rural", "Maybe", "Unlimited"),
       RawRow(<<"1", "9">>, <<"9">>, <<"2">>, <<"1">>, <<"1", "8">>,
              "Slow", "Phone", "Urban", "No", "Limited"),
       RawRow(<<"2", "0">>, <<"8">>, <<"2">>, <<"1">>, <<"1", "8">>,
              "Average", "Phone", "Urban", "Yes", "Unlimited") >>

RECURSIVE SeqsUpTo(_, _)
\* the sequences over S of length at most n
SeqsUpTo(S, n) ==
    IF n = 0 THEN {<<>>}
    ELSE LET shorter == SeqsUpTo(S, n - 1)
         IN  shorter \cup {Append(s, x) : s \in {t \in shorter : Len(t) = n - 1}, x \in S}

\* the rows put in front of the Cohort: a header-like row, and a well-formed
\* row with an unmapped Internet value
ExtraPool ==
    { r \in RowPool : r.StudentID \in {<<"M", "A", "I", "N">>, <<"9", ".", "5">>} }

\* the short row lists, and the long ones a run of main needs to get past
\* the sweep
ShortLists ==
    SeqsUpTo(CleanRows \cup UnmappedRows, MaxRows) \cup SeqsUpTo(RowPool, MaxMixedRows)
LongLists == {s \o Cohort : s \in SeqsUpTo(ExtraPool, MaxExtra)}

\* pd.read_csv: the rows restricted to the header's columns, indexed 0..n-1
read_csv(hdr, rows) ==
    Frame(hdr, Tuple([i \in 1..Len(rows) |-> i - 1]),
          Tuple([i \in 1..Len(rows) |-> Graph([c \in Range(hdr) |-> rows[i][c]])]))

\* the header of a file that lacks column c
WithoutColumn(c) ==
    LET keep == Tuple([i \in 1..Len(CsvColumns) |-> CsvColumns[i] # c])
        sel == SelectIdx(keep, 1, Len(CsvColumns))
    IN  Tuple([j \in 1..Len(sel) |-> CsvColumns[sel[j]]])

Nothing == [columns |-> <<>>, index |-> <<>>, rows |-> <<>>]

VARIABLES
    entry,            \* "main": main() runs; "call": a caller uses the functions
    file,             \* "ok", "missing" (FileNotFoundError), "unreadable"
    header,           \* the columns of the CSV file
    rowlist,          \* the rows of the CSV file
    pc,               \* the statement about to run
    error,            \* "" or the exception that ended the run
    printed,          \* the messages printed so far
    df,               \* the frame df of load_and_prepare_data
    original_df,      \* its copy original_df
    feature_columns,  \* df_to_scale.columns
    scaled_data,      \* the matrix returned, or None
    calls,            \* the stages entered so far, in order
    np_random,        \* the state of the process-wide random generator
    inertias,         \* the list inertias of find_optimal_k
    fits,             \* every KMeans fit completed so far, in order
    plot,             \* the file elbow_plot.png, or None
    k,                \* the argument k of run_kmeans
    kmeans,           \* the fitted estimator inside run_kmeans, or None
    labels,           \* the labels run_kmeans returned, or None
    score,            \* the silhouette score, or None
    df_analysis,      \* the labelled copy df_analysis of analyze_clusters, or None
    final_analysis    \* the table analyze_clusters printed, or None

input == <<entry, file, header, rowlist>>
loaded == <<df, original_df, feature_columns, scaled_data>>
fitted == <<k, kmeans, labels, score, df_analysis, final_analysis>>
swept == <<inertias, plot>>

vars == <<entry, file, header, rowlist, pc, error, printed, df, original_df,
          feature_columns, scaled_data, calls, np_random, inertias, fits, plot,
          k, kmeans, labels, score, df_analysis, final_analysis>>

Init ==
    /\ entry \in {"main", "call"}
    /\ \/ /\ file = "ok"
          /\ header = CsvColumns
          /\ rowlist \in ShortLists \cup (IF entry = "main" THEN LongLists ELSE {})
       \/ /\ file = "ok"
          /\ \E c \in Range(CsvColumns) : header = WithoutColumn(c)
          /\ rowlist \in SeqsUpTo(RowPool, MaxRowsPartialSchema)
       \/ /\ file \in {"missing", "unreadable"}
          /\ header = CsvColumns
          /\ rowlist = <<>>
    /\ pc = "read_csv"
    /\ error = ""
    /\ printed = <<>>
    /\ df = Nothing
    /\ original_df = Nothing
    /\ feature_columns = <<>>
    /\ scaled_data = None
    /\ calls = <<>>
    /\ np_random = 0
    /\ inertias = <<>>
    /\ fits = <<>>
    /\ plot = None
    /\ k = 0
    /\ kmeans = None
    /\ labels = None
    /\ score = None
    /\ df_analysis = None
    /\ final_analysis = None

Raise(exc) == pc' = "crashed" /\ error' = exc

\* lines 23-29
ReadCsv ==
    /\ pc = "read_csv"
    /\ UNCHANGED <<np_random, fits, swept, fitted>>
    /\ UNCHANGED <<entry, file, header, rowlist, original_df, feature_columns, scaled_data>>
    /\ calls' = Append(calls, "load_and_prepare_data")
    /\ CASE file = "ok" ->
              /\ df' = read_csv(header, rowlist)
              /\ pc' = "clean_id"
              /\ UNCHANGED <<error, printed>>
         [] file = "missing" ->
              /\ printed' = Append(printed, "file not found")
              /\ pc' = "returned_none"
              /\ UNCHANGED <<error, df>>
         [] OTHER ->
              /\ Raise("OSError")
              /\ UNCHANGED <<printed, df>>

\* lines 31-34
CleanStudentID ==
    /\ pc = "clean_id"
    /\ UNCHANGED <<np_random, fits, swept, fitted>>
    /\ UNCHANGED <<entry, file, header, rowlist, printed, original_df, feature_columns,
                   scaled_data, calls>>
    /\ IF ~HasColumns(df, <<IdColumn>>)
       THEN Raise("KeyError") /\ UNCHANGED df
       ELSE /\ df' = AssignColumn(dropna(AssignColumn(df, IdColumn, to_numeric),
                                         <<IdColumn>>),
                                  IdColumn, astype_int)
            /\ pc' = "force_numeric"
            /\ UNCHANGED error

\* lines 36-45
ForceNumeric ==
    /\ pc = "force_numeric"
    /\ UNCHANGED <<np_random, fits, swept, fitted>>
    /\ UNCHANGED <<entry, file, header, rowlist, printed, original_df, feature_columns,
                   scaled_data, calls>>
    /\ IF ~HasColumns(df, numeric_cols_to_convert)
       THEN Raise("KeyError") /\ UNCHANGED df
       ELSE /\ df' = dropna(ConvertColumns(df, numeric_cols_to_convert),
                            numeric_cols_to_convert)
            /\ pc' = "keep_original"
            /\ UNCHANGED error

\* lines 48-49
KeepOriginal ==
    /\ pc = "keep_original"
    /\ original_df' = OriginalCopy(df)
    /\ pc' = "map_internet"
    /\ UNCHANGED <<np_random, fits, swept, fitted>>
    /\ UNCHANGED <<entry, file, header, rowlist, error, printed, df, feature_columns,
                   scaled_data, calls>>

\* lines 53-55
MapInternet ==
    /\ pc = "map_internet"
    /\ UNCHANGED <<np_random, fits, swept, fitted>>
    /\ UNCHANGED <<entry, file, header, rowlist, printed, original_df, feature_columns,
                   scaled_data>>
    /\ IF ~HasColumns(df, <<OrdinalColumn>>)
       THEN Raise("KeyError") /\ UNCHANGED <<df, calls>>
       ELSE /\ df' = AssignColumn(df, OrdinalColumn, internet_map)
            /\ calls' = Append(calls, "encoder")
            /\ pc' = "get_dummies"
            /\ UNCHANGED error

\* lines 57-59
GetDummies ==
    /\ pc = "get_dummies"
    /\ UNCHANGED <<np_random, fits, swept, fitted>>
    /\ UNCHANGED <<entry, file, header, rowlist, printed, original_df, feature_columns,
                   scaled_data, calls>>
    /\ IF ~HasColumns(df, categorical_features)
       THEN Raise("KeyError") /\ UNCHANGED df
       ELSE /\ df' = get_dummies(df, categorical_features)
            /\ pc' = "scale"
            /\ UNCHANGED error

\* lines 61-87, and the caller's next statement (line 170-173 in main)
ScaleFeatures ==
    /\ pc = "scale"
    /\ UNCHANGED <<np_random, fits, swept, fitted>>
    /\ UNCHANGED <<entry, file, header, rowlist, printed, df, original_df>>
    /\ calls' = Append(calls, "scaler")
    /\ LET df_to_scale == drop_column(df, IdColumn)
       IN  IF NRows(df_to_scale) = 0
           THEN Raise("ValueError") /\ UNCHANGED <<feature_columns, scaled_data>>
           ELSE /\ feature_columns' = df_to_scale.columns
                /\ scaled_data' = Some(fit_transform(df_to_scale))
                /\ pc' = AfterLoad(entry)
                /\ UNCHANGED error

\* lines 29 and 170-171: the (None, None, None) result ends the run
ReturnOnNone ==
    /\ pc = "returned_none"
    /\ pc' = AfterNone(entry)
    /\ UNCHANGED <<np_random, fits, swept, fitted>>
    /\ UNCHANGED <<entry, file, header, rowlist, error, printed, df, original_df,
                   feature_columns, scaled_data, calls>>

\* lines 93-99: one turn of the loop of find_optimal_k
SweepStep ==
    /\ pc = "sweep"
    /\ UNCHANGED <<input, loaded, printed, plot, fitted>>
    /\ calls' = IF inertias = <<>> THEN Append(calls, "find_optimal_k") ELSE calls
    /\ LET kk == KRangeFirst + Len(inertias)
       IN  IF FitRejects(scaled_data, kk)
           THEN Raise("ValueError") /\ UNCHANGED <<np_random, inertias, fits>>
           ELSE LET fit == KMeansFit(scaled_data.val, kk, SelectorRandomState,
                                     SelectorNInit, np_random)
                IN  /\ inertias' = Append(inertias, fit.inertia_)
                    /\ fits' = Append(fits, FitRecord("find_optimal_k", scaled_data, fit))
                    /\ np_random' = fit.global
                    /\ pc' = IF kk = KRangeLast THEN "savefig" ELSE "sweep"
                    /\ UNCHANGED error

\* lines 101-112, and line 175 of main
SaveFig ==
    /\ pc = "savefig"
    /\ plot' = Some([name |-> "elbow_plot.png",
                     x |-> Tuple([i \in 1..Len(inertias) |-> KRangeFirst + i - 1]),
                     y |-> inertias])
    /\ printed' = Append(printed, "elbow plot saved")
    /\ k' = FitterCount(inertias)
    /\ pc' = "run_kmeans"
    /\ UNCHANGED <<input, loaded, error, calls, np_random, inertias, fits, kmeans,
                   labels, score, df_analysis, final_analysis>>

\* a caller other than main passes a cluster count of its own
CallRunKmeans ==
    /\ pc = "call_run_kmeans"
    /\ \E kk \in 0..MaxK : k' = kk
    /\ pc' = "run_kmeans"
    /\ UNCHANGED <<input, loaded, error, printed, calls, np_random, swept, fits,
                   kmeans, labels, score, df_analysis, final_analysis>>

\* lines 118-120
RunKmeansFit ==
    /\ pc = "run_kmeans"
    /\ UNCHANGED <<input, loaded, printed, swept, k, labels, score, df_analysis,
                   final_analysis>>
    /\ calls' = Append(calls, "run_kmeans")
    /\ IF FitRejects(scaled_data, k)
       THEN Raise("ValueError") /\ UNCHANGED <<np_random, fits, kmeans>>
       ELSE LET fit == KMeansFit(scaled_data.val, k, FitterRandomState, FitterNInit,
                                 np_random)
            IN  /\ kmeans' = Some(fit)
                /\ fits' = Append(fits, FitRecord("run_kmeans", scaled_data, fit))
                /\ np_random' = fit.global
                /\ pc' = "silhouette"
                /\ UNCHANGED error

\* lines 121-131
RunKmeansScore ==
    /\ pc = "silhouette"
    /\ UNCHANGED <<input, loaded, calls, np_random, swept, fits, k, kmeans,
                   df_analysis, final_analysis>>
    /\ IF ScoreRejects(scaled_data.val, kmeans.val.labels_)
       THEN Raise("ValueError") /\ UNCHANGED <<printed, labels, score>>
       ELSE /\ score' = Some(silhouette_score(scaled_data.val, kmeans.val.labels_))
            /\ printed' = printed \o <<"K-Means complete", GoalMessage(score'.val)>>
            /\ labels' = Some(kmeans.val.labels_)
            /\ pc' = "analyze"
            /\ UNCHANGED error

\* lines 133-162
AnalyzeClusters ==
    /\ pc = "analyze"
    /\ UNCHANGED <<input, loaded, np_random, swept, fits, k, kmeans, labels, score>>
    /\ calls' = Append(calls, "analyze_clusters")
    /\ IF Len(labels.val) # NRows(original_df)
       THEN Raise("ValueError") /\ UNCHANGED <<printed, df_analysis, final_analysis>>
       ELSE /\ df_analysis' = Some(WithCluster(original_df, labels.val))
            /\ final_analysis' = Some(Profile(df_analysis'.val))
            /\ printed' = Append(printed, "cluster analysis")
            /\ pc' = "done"
            /\ UNCHANGED error

Next ==
    \/ ReadCsv
    \/ CleanStudentID
    \/ ForceNumeric
    \/ KeepOriginal
    \/ MapInternet
    \/ GetDummies
    \/ ScaleFeatures
    \/ ReturnOnNone
    \/ SweepStep
    \/ SaveFig
    \/ CallRunKmeans
    \/ RunKmeansFit
    \/ RunKmeansScore
    \/ AnalyzeClusters

Spec == Init /\ [][Next]_vars

\* ------------------------------------------------------------------------
\* Properties

\* the columns lines 32-45 coerce
CoercedColumns == <<IdColumn>> \o numeric_cols_to_convert

\* a row of the file whose identifier and four numeric fields all convert
Convertible(r) == \A c \in Range(CoercedColumns) : ~IsNaN(to_numeric(r[c]))

\* the cell the coercion leaves for column c of the raw row r
CoercedCell(r, c) ==
    IF c = IdColumn THEN astype_int(to_numeric(r[c]))
    ELSE IF c \in Range(numeric_cols_to_convert) THEN to_numeric(r[c])
    ELSE r[c]

\* C1: the table the coercion step produces holds exactly the rows of the
\* file whose StudentID, StudyHoursPerDay, TechSkill, Motivation and Age all
\* convert to numbers, in their original order, every cell the converted
\* value of the file's own cell, so that it has no more rows than the file.
C1_CoercionKeepsConvertibleRows ==
    pc = "keep_original" =>
        /\ NRows(df) <= Len(rowlist)
        /\ Len(df.index) = NRows(df)
        /\ \A p \in 1..Len(rowlist) :
              Convertible(rowlist[p]) <=> \E i \in 1..NRows(df) : df.index[i] = p - 1
        /\ \A i \in 1..NRows(df) : \A j \in 1..NRows(df) :
              i < j => df.index[i] < df.index[j]
        /\ \A i \in 1..NRows(df) : \A c \in Range(header) :
              df.rows[i][c] = CoercedCell(rowlist[df.index[i] + 1], c)

\* a table that lost a row to the coercion and kept at least two
C1_Witness ==
    /\ pc = "keep_original"
    /\ header = CsvColumns
    /\ NRows(df) >= 2
    /\ NRows(df) < Len(rowlist)
    /\ \E p \in 1..Len(rowlist) : rowlist[p].StudentID = <<"M", "A", "I", "N">>

\* the place of column c in a list of columns
Pos(cols, c) == CHOOSE j \in 1..Len(cols) : cols[j] = c

\* column c of a frame
ColumnOf(f, c) == Tuple([i \in 1..NRows(f) |-> f.rows[i][c]])

\* C2: once analyze_clusters has labelled the typed copy, the matrix, the
\* typed copy and the labels have one length, and place i means one
\* respondent in all three: the typed record at i is row index[i] of the
\* file, the feature vector at i holds the standardised numeric fields of
\* that record, and the label attached to it is the i-th label of the fit
\* run_kmeans made on that matrix.
C2_PositionsAligned ==
    ~IsNone(df_analysis) =>
        LET X == scaled_data.val
            lab == labels.val
            dfa == df_analysis.val
            n == NRows(original_df)
            last == fits[Len(fits)]
        IN  /\ Len(X) = n /\ Len(lab) = n /\ NRows(dfa) = n
            /\ last.by = "run_kmeans" /\ last.X = scaled_data /\ last.labels_ = lab
            /\ \A i \in 1..n :
                  /\ dfa.rows[i].Cluster = lab[i]
                  /\ dfa.index[i] = original_df.index[i]
                  /\ df.index[i] = original_df.index[i]
                  /\ \A c \in Range(CsvColumns) :
                        /\ dfa.rows[i][c] = original_df.rows[i][c]
                        /\ original_df.rows[i][c]
                              = CoercedCell(rowlist[original_df.index[i] + 1], c)
                  /\ \A c \in Range(numeric_cols) :
                        X[i][Pos(feature_columns, c)]
                            = ScaleColumn(ColumnOf(original_df, c))[i]

\* a labelled table that lost a row to the coercion and has two clusters
C2_Witness ==
    /\ ~IsNone(df_analysis)
    /\ NRows(original_df) < Len(rowlist)
    /\ original_df.index[1] # 0
    /\ Cardinality(Range(labels.val)) >= 2

\* the typed records carrying label g, in row order
Carrying(g) ==
    LET Labelled(r) == r.Cluster = g
    IN  SelectSeq(df_analysis.val.rows, Labelled)

Occurrences(rs, c, v) == Cardinality({i \in 1..Len(rs) : rs[i][c] = v})

\* the values of field c most frequent among the records rs
MostFrequent(rs, c) ==
    {rs[i][c] : i \in {i \in 1..Len(rs) :
        \A j \in 1..Len(rs) : Occurrences(rs, c, rs[i][c]) >= Occurrences(rs, c, rs[j][c])}}

\* the most frequent value met first in row order
FirstEncountered(rs, c) ==
    rs[CHOOSE i \in 1..Len(rs) :
          /\ rs[i][c] \in MostFrequent(rs, c)
          /\ \A j \in 1..(i - 1) : rs[j][c] \notin MostFrequent(rs, c)][c]

\* the row of the profile for label g
ProfileRow(g) ==
    final_analysis.val[CHOOSE j \in 1..Len(final_analysis.val) :
                          final_analysis.val[j].Cluster = g]

\* C3 as stated: for every label and every categorical field the profile
\* reports the most frequent original value among the records carrying the
\* label, and of tied values the one met first in row order.
C3_ModeTiesFirstEncountered ==
    ~IsNone(final_analysis) =>
        \A g \in Range(labels.val) : \A c \in Range(categorical_cols) :
            ProfileRow(g).modes[c] = FirstEncountered(Carrying(g), c)

\* C3, amended: for every label the profile has one row, and for every
\* categorical field it reports an original, un-encoded value that is most
\* frequent among the records carrying the label; of tied values it reports
\* the one that sorts first, whatever the row order.
C3_ModeTiesSmallest ==
    ~IsNone(final_analysis) =>
        /\ \A g \in Range(labels.val) :
              Cardinality({j \in 1..Len(final_analysis.val) :
                              final_analysis.val[j].Cluster = g}) = 1
        /\ \A g \in Range(labels.val) : \A c \in Range(categorical_cols) :
              LET rs == Carrying(g)
                  m == ProfileRow(g).modes[c]
              IN  /\ m \in MostFrequent(rs, c)
                  /\ \E i \in 1..NRows(original_df) :
                        labels.val[i] = g /\ original_df.rows[i][c] = m
                  /\ \A w \in MostFrequent(rs, c) : StrRank(m) <= StrRank(w)

\* a cluster with tied values of a field, the first met not the one that
\* sorts first
C3_Witness ==
    /\ ~IsNone(final_analysis)
    /\ \E g \in Range(labels.val) : \E c \in Range(categorical_cols) :
          /\ Cardinality(MostFrequent(Carrying(g), c)) >= 2
          /\ ProfileRow(g).modes[c] # FirstEncountered(Carrying(g), c)

\* the number of rows carrying label g
SizeOf(lab, g) == Cardinality({i \in 1..Len(lab) : lab[i] = g})

\* a partition of one cluster, or with a cluster of exactly one member
Degenerate(lab) == k = 1 \/ \E g \in Range(lab) : SizeOf(lab, g) = 1

AllSingleton(lab) == \A g \in Range(lab) : SizeOf(lab, g) = 1

\* C4 as stated: once run_kmeans has fitted a degenerate partition (k = 1,
\* or a cluster of exactly one member, the all-singleton partition
\* included) the scoring raises nothing and yields a value, 0 for k = 1 and
\* for an all-singleton partition, and run_kmeans returns the labels.
C4_ScoringNeverFails ==
    (~IsNone(kmeans) /\ pc # "silhouette" /\ Degenerate(kmeans.val.labels_)) =>
        /\ error = ""
        /\ ~IsNone(score)
        /\ ~IsNone(labels) /\ labels.val = kmeans.val.labels_
        /\ (k = 1 \/ AllSingleton(kmeans.val.labels_)) => score.val = 0

\* the cluster count run_kmeans is called with
RequestedK == IF entry = "main" THEN MainK ELSE k

\* the run has ended
Halted == pc \in {"done", "crashed"}

\* C5 as stated: when the cluster count handed to run_kmeans is below 1 or
\* above the number of rows left by the coercion, the run ends with an
\* error, no clustering fit having been performed and no labels and no
\* profile produced.
C5_InvalidCountHaltsBeforeFit ==
    (/\ ~IsNone(scaled_data)
     /\ Halted
     /\ (RequestedK < 1 \/ RequestedK > NRows(original_df))) =>
        /\ error # ""
        /\ fits = <<>>
        /\ IsNone(labels)
        /\ IsNone(final_analysis)

\* the stage has been entered
Ran(stage) == \E i \in 1..Len(calls) : calls[i] = stage

\* the failure has been reported: an exception, or the message and None
Reported == error # "" \/ \E i \in 1..Len(printed) : printed[i] = "file not found"

\* the file is missing or unreadable, or lacks a column the pipeline reads
IngestionFailure == file # "ok" \/ \E c \in Range(CsvColumns) : c \notin Range(header)

\* C6 as stated: in a run of main whose ingestion fails, the failure is
\* reported and the encoder, the scaler, find_optimal_k, run_kmeans and
\* analyze_clusters never run and no elbow plot is written.
C6_IngestionFailureRunsNothing ==
    (entry = "main" /\ IngestionFailure) =>
        /\ \A stage \in {"encoder", "scaler", "find_optimal_k", "run_kmeans",
                          "analyze_clusters"} : ~Ran(stage)
        /\ IsNone(plot)
        /\ Halted => Reported

\* C6, amended: in a run of main whose ingestion fails, the failure is
\* reported, the run never ends normally but for the missing file main
\* returns on, and the scaler, find_optimal_k, run_kmeans and
\* analyze_clusters never run, no fit is made and no elbow plot is written;
\* the encoder does not run when the file is missing or unreadable or when
\* StudentID, a numeric column or Internet is absent (an absent nominal
\* column is found only after the encoder has mapped Internet).
C6_IngestionFailureHaltsBeforeScaling ==
    (entry = "main" /\ IngestionFailure) =>
        /\ \A stage \in {"scaler", "find_optimal_k", "run_kmeans", "analyze_clusters"} :
              ~Ran(stage)
        /\ pc \notin {"scale", "sweep", "savefig", "run_kmeans", "silhouette", "analyze"}
        /\ IsNone(plot) /\ IsNone(scaled_data) /\ fits = <<>>
        /\ IsNone(labels) /\ IsNone(final_analysis)
        /\ (file # "ok"
              \/ \E c \in Range(CoercedColumns) \cup {OrdinalColumn} : c \notin Range(header))
              => ~Ran("encoder")
        /\ Halted => Reported
        /\ pc = "done" => file = "missing"

\* main stopped by an absent nominal column, Internet already mapped
C6_Witness ==
    /\ entry = "main"
    /\ IngestionFailure
    /\ pc = "crashed" /\ error = "KeyError"
    /\ Ran("encoder")
    /\ NRows(df) > 0

\* the closed lookup of the Internet field
InLookup(v) == v \in {"Slow", "Average", "Fast"}
Rank(v) == CASE v = "Slow" -> 1 [] v = "Average" -> 2 [] v = "Fast" -> 3

\* the stage entered last
LastCall == calls[Len(calls)]

\* C7: once the encoder has mapped Internet, every row of the typed copy is
\* still there, at its place, its Internet value 1 for Slow, 2 for Average
\* and 3 for Fast and the missing value for anything else; on a file with
\* all its columns the encoder raises nothing and the scaler raises only on
\* a table without rows; and the matrix the scaler returns has a row for
\* every typed record, its Internet feature missing exactly where the value
\* was outside the lookup.
C7_InternetLookup ==
    /\ pc \in {"get_dummies", "scale"} =>
          /\ NRows(df) = NRows(original_df)
          /\ \A i \in 1..NRows(df) :
                LET v == original_df.rows[i].Internet
                    e == df.rows[i].Internet
                IN  /\ df.index[i] = original_df.index[i]
                    /\ IF InLookup(v) THEN e = Num(Rank(v) * Tenths) ELSE IsNaN(e)
    /\ (header = CsvColumns /\ pc = "crashed" /\ calls # <<>>) =>
          /\ LastCall # "encoder"
          /\ LastCall = "scaler" => NRows(original_df) = 0
    /\ ~IsNone(scaled_data) =>
          /\ Len(scaled_data.val) = NRows(original_df)
          /\ \A i \in 1..NRows(original_df) :
                IsNaN(scaled_data.val[i][Pos(feature_columns, "Internet")])
                    <=> ~InLookup(original_df.rows[i].Internet)

\* a scaled table with a row outside the lookup next to rows inside it
C7_Witness ==
    /\ ~IsNone(scaled_data)
    /\ \E i \in 1..NRows(original_df) : \E j \in 1..NRows(original_df) :
          /\ i < j
          /\ original_df.rows[i].Internet = "Fast"
          /\ original_df.rows[j].Internet = "Medium"
          /\ IsNaN(scaled_data.val[j][Pos(feature_columns, "Internet")])
          /\ ~IsNaN(scaled_data.val[i][Pos(feature_columns, "Internet")])

\* the distinct values of field c among the rows left by the coercion
Observed(c) == {original_df.rows[i][c] : i \in 1..NRows(original_df)}

\* the feature columns that are indicators of field c
IndicatorsOf(c) ==
    {j \in 1..Len(feature_columns) :
        \E v \in Range(Alphabetical) : feature_columns[j] = DummyName(c, v)}

\* C8: in the feature columns every nominal field has one indicator column
\* for each distinct value it takes among the rows left by the coercion and
\* none for any other value, so that the feature columns are the four
\* numeric fields, Internet and one column per observed value, one more
\* for every value seen for the first time; StudentID is not among them.
C8_IndicatorColumns ==
    ~IsNone(scaled_data) =>
        /\ IdColumn \notin Range(feature_columns)
        /\ \A c \in Range(categorical_features) :
              /\ Cardinality(IndicatorsOf(c)) = Cardinality(Observed(c))
              /\ \A v \in Range(Alphabetical) :
                    DummyName(c, v) \in Range(feature_columns) <=> v \in Observed(c)
        /\ Len(feature_columns)
              = Len(numeric_cols_to_convert) + 1
                + SumTo(Tuple([j \in 1..Len(categorical_features) |->
                                  Cardinality(Observed(categorical_features[j]))]),
                        Len(categorical_features))
        /\ \A i \in 1..Len(scaled_data.val) :
              Len(scaled_data.val[i]) = Len(feature_columns)

\* a value held by one kept row has its column, a value held only by a
\* dropped row has none
C8_Witness ==
    /\ ~IsNone(scaled_data)
    /\ \E p \in 1..Len(rowlist) : rowlist[p].OnlineClassPreference = "Maybe"
    /\ DummyName("OnlineClassPreference", "Maybe") \notin Range(feature_columns)
    /\ \E v \in Observed("Device") :
          /\ Cardinality({i \in 1..NRows(original_df) : original_df.rows[i].Device = v}) = 1
          /\ DummyName("Device", v) \in Range(feature_columns)

\* run_kmeans has been called
FitterCalled == pc \in {"run_kmeans", "silhouette", "analyze"} \/ Ran("run_kmeans")

\* C9: in main the sweep records one inertia per candidate count, for the
\* counts 1, 2, ... in that order, each the inertia of a fit of that count
\* on the feature matrix, and the plot holds the ten of them against 1..10;
\* run_kmeans is called only after the tenth, and whatever the inertias it
\* is called with k = 4 and fits that count on the same matrix with its own
\* seed, the process-wide generator untouched by the sweep.
C9_SweepIsDiagnosticOnly ==
    entry = "main" =>
        /\ Len(inertias) <= KRangeLast - KRangeFirst + 1
        /\ \A i \in 1..Len(inertias) :
              /\ fits[i].by = "find_optimal_k"
              /\ fits[i].n_clusters = i
              /\ fits[i].X = scaled_data
              /\ fits[i].inertia_ = inertias[i]
        /\ np_random = 0
        /\ ~IsNone(plot) =>
              /\ plot.val.x = <<1, 2, 3, 4, 5, 6, 7, 8, 9, 10>>
              /\ plot.val.y = inertias
              /\ Len(inertias) = 10
        /\ FitterCalled =>
              /\ Len(inertias) = 10 /\ ~IsNone(plot)
              /\ k = 4
              /\ Len(fits) <= 11
        /\ Len(fits) > Len(inertias) =>
              /\ Len(fits) = 11
              /\ fits[11].by = "run_kmeans"
              /\ fits[11].n_clusters = 4
              /\ fits[11].X = scaled_data
              /\ fits[11].random_state = IntSeed(42)
              /\ ~IsNone(kmeans) /\ fits[11].labels_ = kmeans.val.labels_
        /\ ~IsNone(labels) => labels.val = fits[11].labels_
        /\ ~IsNone(final_analysis) => df_analysis.val = WithCluster(original_df, labels.val)

\* main has swept, plotted, fitted and profiled
C9_Witness ==
    /\ entry = "main"
    /\ ~IsNone(plot)
    /\ Len(inertias) = 10
    /\ \E i \in 1..9 : inertias[i] > inertias[i + 1]
    /\ ~IsNone(final_analysis)

\* the estimator run_kmeans would fit were the process-wide generator in
\* another state
SecondRun ==
    KMeansFit(scaled_data.val, k, FitterRandomState, FitterNInit, RngNext(np_random))

\* C10: every fit, of the selector and of run_kmeans alike, is seeded with
\* 42 and makes 10 restarts; run_kmeans keeps the labels of the restart of
\* least inertia, the earliest of them when several tie; a second run on
\* the same matrix with the same k gives the same labels place by place,
\* whatever the state of the process-wide generator, and in main the labels
\* are those the selector's fit of the same count gave.
C10_FitterDeterministic ==
    /\ \A i \in 1..Len(fits) :
          fits[i].random_state = IntSeed(42) /\ fits[i].n_init = 10
    /\ ~IsNone(kmeans) =>
          LET fit == kmeans.val
          IN  /\ Len(fit.runs) = 10
              /\ fit.labels_ = fit.runs[fit.best].labels
              /\ \A r \in 1..Len(fit.runs) :
                    /\ fit.runs[r].inertia >= fit.runs[fit.best].inertia
                    /\ r < fit.best => fit.runs[r].inertia > fit.runs[fit.best].inertia
              /\ fit.global = np_random
    /\ pc = "silhouette" =>
          /\ SecondRun.labels_ = kmeans.val.labels_
          /\ SecondRun.best = kmeans.val.best
    /\ (entry = "main" /\ ~IsNone(kmeans)) => kmeans.val.labels_ = fits[k].labels_

\* a fit of two clusters or more in which a later restart costs as little
\* as the one kept and labels the rows differently
C10_Witness ==
    /\ pc = "silhouette"
    /\ Cardinality(Range(kmeans.val.labels_)) >= 2
    /\ \E r \in 1..Len(kmeans.val.runs) :
          /\ r > kmeans.val.best
          /\ kmeans.val.runs[r].inertia = kmeans.val.runs[kmeans.val.best].inertia
          /\ kmeans.val.runs[r].labels # kmeans.val.labels_
====
